---- MODULE Spec2Model ----
(***************************************************************************)
(* Model of nox.c: the audio voice pool shared between the Lua control     *)
(* thread and the SDL audio callback (mix_audio_voices), the sample and    *)
(* image handles with their destroy functions, and the render target.      *)
(*                                                                         *)
(* The control thread is one process with a program counter; every step    *)
(* between two SDL_LockAudioDevice / SDL_UnlockAudioDevice calls is its    *)
(* own action, so that the callback can interleave wherever the audio      *)
(* device lock is not held.  The callback runs with the device lock held   *)
(* by SDL for its whole duration and is therefore one action.              *)
(***************************************************************************)
EXTENDS Integers, Sequences, FiniteSets, TLC

(***************************************************************************)
(* Bounds of the model.                                                    *)
(***************************************************************************)
\* size of the voice pool; nox.c:82 sets 32, the model scales the pool down
AUDIO_VOICES == 2
\* number of nox_sample userdata the script may create
NumSamples == 2
\* number of nox_image userdata the script may create
NumImages == 3
\* number of userdata, samples and images together, the script may create
MaxHandles == 3
\* number of registry slots luaL_ref may come to use
MaxRefs == 4
\* number of output frames one callback produces at most (len8 / 8)
MaxFrames == 2
\* number of set_render_target calls the history keeps
MaxCalls == 3
\* length of the byte strings given to nox.math.compress at most
MaxBytes == 5
\* sizeof(data) in f_nox_math_decompress; nox.c:631 sets 64 KiB, the model
\* scales the chunk and the LZ4 block down together
DataSize == 2

(***************************************************************************)
(* Program constants and number representation.                            *)
(***************************************************************************)
AUDIO_FREQUENCY == 44100
LUA_NOREF == -2
NULL == 0
\* gain, pitch and pan are floats; the model counts them in halves
FP_ONE == 2
\* voice_t.position is a float; the model counts it in quarter PCM values
POS_ONE == 4

minimum(a, b) == IF a < b THEN a ELSE b
maximum(a, b) == IF a > b THEN a ELSE b
clamp(x, lo, hi) == maximum(minimum(x, hi), lo)

VoiceIds == 1..AUDIO_VOICES
SampleIds == 1..NumSamples
ImageIds == 1..NumImages

VARIABLES
    voices,         \* audio_voices[]
    samples,        \* the nox_sample userdata
    audio_gain,     \* global gain
    registry,       \* the Lua registry as luaL_ref / luaL_unref use it
    lock_depth,     \* how often the control thread holds the audio device lock
    pc,             \* position of the control thread
    stack,          \* return positions of the C calls in progress
    self,           \* the sample_t* argument of the running function
    i,              \* loop index of the running function (1-based)
    cur,            \* the voice_t* argument of stop_voice / chosen by play_sample
    args,           \* gain, pitch, pan, looping of the running play_sample
    snap,           \* the voices that referenced self when destroy_sample was called
    result,         \* what the finished API function gave back to the script
    images,         \* the nox_image userdata
    render_target,  \* the image whose texture render_target points to, or NULL
    render_target_ref,  \* registry reference that keeps the bound image alive
    target_calls,   \* history: arguments of the latest set_render_target calls
                    \* that returned normally, 0 for nil; a destroy_image
                    \* starts the history again
    audio_device,   \* the SDL audio device: "playing", "paused" or "closed"
    main_pc         \* position of main: "init_nox", "lua_close",
                    \* "shutdown_nox", "done"

video_vars == <<images, render_target, render_target_ref, target_calls>>
main_vars == <<audio_device, main_pc>>

vars == <<voices, samples, audio_gain, registry, lock_depth, pc, stack,
          self, i, cur, args, snap, result, images, render_target,
          render_target_ref, target_calls, audio_device, main_pc>>

ctl_locals == <<self, i, cur, args, snap>>

(***************************************************************************)
(* The Lua registry: luaL_ref takes the head of the free list or appends,  *)
(* luaL_unref links the slot into the free list and ignores ref < 0.  The  *)
(* link luaL_ref reads from a slot that holds an object (after a slot was  *)
(* released twice) converts to 0, the empty list.                          *)
(***************************************************************************)
FreeLink(next) == [kind |-> "free", id |-> next]
SampleObj(s) == [kind |-> "sample", id |-> s]
ImageObj(k) == [kind |-> "image", id |-> k]

luaL_ref_id(reg) == IF reg.freelist # 0 THEN reg.freelist ELSE Len(reg.slot) + 1

luaL_ref(reg, obj) ==
    IF reg.freelist # 0
    THEN [freelist |-> IF reg.slot[reg.freelist].kind = "free"
                       THEN reg.slot[reg.freelist].id ELSE 0,
          slot |-> [reg.slot EXCEPT ![reg.freelist] = obj]]
    ELSE [freelist |-> 0, slot |-> Append(reg.slot, obj)]

luaL_unref(reg, ref) ==
    IF ref >= 0
    THEN [freelist |-> ref,
          slot |-> [reg.slot EXCEPT ![ref] = FreeLink(reg.freelist)]]
    ELSE reg

RefLive(reg, ref) == ref \in DOMAIN reg.slot /\ reg.slot[ref].kind # "free"
LiveRefs(reg) == {r \in DOMAIN reg.slot : reg.slot[r].kind # "free"}

(***************************************************************************)
(* Initial state: after init_nox has reset the pool and unpaused audio.    *)
(***************************************************************************)
NoArgs == [gain |-> 0, pitch |-> 0, pan |-> 0, looping |-> FALSE]
NoResult == [op |-> "none", arg |-> 0, status |-> "none", value |-> 0, msg |-> ""]

InitVoice == [sample |-> NULL, sample_ref |-> LUA_NOREF, position |-> 0,
              gain |-> 0, pitch |-> 0, pan |-> 0, looping |-> FALSE]

NoRect == [x |-> 0, y |-> 0, w |-> 0, h |-> 0]

NoImage == [alloc |-> FALSE, root |-> 0, texture |-> FALSE, rect |-> NoRect,
            target_access |-> FALSE, destroys |-> 0, destroyed |-> FALSE,
            gced |-> FALSE]

NoSample == [alloc |-> FALSE, data |-> FALSE, freq |-> 0, length |-> 0,
             channels |-> 0, frees |-> 0, destroyed |-> FALSE, gced |-> FALSE]

Init ==
    /\ voices = [v \in VoiceIds |-> InitVoice]
    /\ samples = [s \in SampleIds |-> NoSample]
    /\ audio_gain = FP_ONE
    /\ registry = [freelist |-> 0, slot |-> <<>>]
    /\ lock_depth = 0
    /\ pc = "idle"
    /\ stack = <<>>
    /\ self = NULL
    /\ i = 0
    /\ cur = 0
    /\ args = NoArgs
    /\ snap = {}
    /\ result = NoResult
    /\ images = [k \in ImageIds |-> NoImage]
    /\ render_target = NULL
    /\ render_target_ref = LUA_NOREF
    /\ target_calls = <<>>
    /\ audio_device = "playing"
    /\ main_pc = "init_nox"

(***************************************************************************)
(* Leaving an API function.                                                *)
(***************************************************************************)
\* arg is the voice index, sample or image the function was called with
Ok(op, arg, value) == [op |-> op, arg |-> arg, status |-> "ok", value |-> value, msg |-> ""]
\* push_error: nil and a message are returned to the script
Fail(op, arg, msg) == [op |-> op, arg |-> arg, status |-> "fail", value |-> 0, msg |-> msg]
\* luaL_argcheck / luaL_error: a Lua error is raised
Raise(op, arg, msg) == [op |-> op, arg |-> arg, status |-> "error", value |-> 0, msg |-> msg]

Finish(r) ==
    /\ pc' = "ret"
    /\ result' = r
    /\ stack' = <<>>
    /\ self' = NULL
    /\ i' = 0
    /\ cur' = 0
    /\ args' = NoArgs
    /\ snap' = {}

\* the script goes on after the function returned, or lua_close after the
\* finalizer it called
Return ==
    /\ pc = "ret"
    /\ pc' = IF main_pc = "init_nox" THEN "idle" ELSE main_pc
    /\ result' = NoResult
    /\ UNCHANGED <<voices, samples, audio_gain, registry, lock_depth, stack, ctl_locals>>
    /\ UNCHANGED <<video_vars, main_vars>>

Handles ==
    Cardinality({s \in SampleIds : samples[s].alloc})
        + Cardinality({k \in ImageIds : images[k].alloc})

Scriptable(s) == samples[s].alloc /\ ~samples[s].gced

\* mutant: check_sample accepts a destroyed sample
check_sample_Always(s) == TRUE

check_sample(s) == samples[s].data

DestroyedSampleMsg == "attempt to operate on destroyed sample"


(***************************************************************************)
(* mix_audio_voices: one output frame for one voice, then for the pool,    *)
(* then len frames.  The voice is advanced while its truncated position    *)
(* is below the sample's length; at the end it wraps or is cleared.        *)
(***************************************************************************)
Pos(v) == v.position \div POS_ONE

\* mutant: the position of a voice does not advance
PosStep_Zero(v, smp) == 0

PosStep(v, smp) ==
    IF smp.channels = 1
    THEN (smp.freq * v.pitch * POS_ONE) \div (AUDIO_FREQUENCY * FP_ONE)
    ELSE (smp.freq * (v.pitch * 2) * POS_ONE) \div (AUDIO_FREQUENCY * FP_ONE)

\* mutant: the callback also drops the reference at the end of the sample
MixVoice_DropsRef(v) ==
    IF v.sample # NULL
    THEN IF Pos(v) < samples[v.sample].length
         THEN [v EXCEPT !.position = @ + PosStep(v, samples[v.sample])]
         ELSE IF v.looping
              THEN [v EXCEPT !.position = 0]
              ELSE [v EXCEPT !.sample = NULL, !.sample_ref = LUA_NOREF]
    ELSE v

MixVoice(v) ==
    IF v.sample # NULL
    THEN IF Pos(v) < samples[v.sample].length
         THEN [v EXCEPT !.position = @ + PosStep(v, samples[v.sample])]
         ELSE IF v.looping
              THEN [v EXCEPT !.position = 0]
              ELSE [v EXCEPT !.sample = NULL]
    ELSE v

RECURSIVE MixFrames(_, _)
MixFrames(vs, len) ==
    IF len = 0 THEN vs
    ELSE MixFrames([j \in VoiceIds |-> MixVoice(vs[j])], len - 1)

\* what one voice adds to one output frame: the index of the PCM value it
\* reads from data[], or Silent when it adds nothing to l and r
Silent == -1

MixedIndex(v) ==
    IF v.sample # NULL /\ Pos(v) < samples[v.sample].length THEN Pos(v) ELSE Silent

\* the indices one voice reads over len successive output frames
RECURSIVE MixedIndices(_, _)
MixedIndices(v, len) ==
    IF len = 0 THEN <<>>
    ELSE <<MixedIndex(v)>> \o MixedIndices(MixVoice(v), len - 1)

\* what one voice adds to l and to r in one output frame: the PCM value it
\* reads (sample and index) and the gain it is scaled by; pan is not used
Term(v, idx) == [sample |-> v.sample, index |-> idx, gain |-> v.gain]
NoTerm == [sample |-> NULL, index |-> Silent, gain |-> 0]

\* mutant: the left channel is scaled by the pan
VoiceLeft_Panned(v) ==
    IF MixedIndex(v) = Silent THEN NoTerm
    ELSE [Term(v, Pos(v)) EXCEPT !.gain = v.gain * (FP_ONE - v.pan)]

VoiceLeft(v) ==
    IF MixedIndex(v) = Silent THEN NoTerm ELSE Term(v, Pos(v))

VoiceRight(v) ==
    IF MixedIndex(v) = Silent THEN NoTerm
    ELSE IF samples[v.sample].channels = 1 THEN Term(v, Pos(v))
         ELSE Term(v, Pos(v) + 1)

\* one output frame: the terms summed into l and r, and the global gain
FrameOutput(vs) ==
    [l |-> [j \in VoiceIds |-> VoiceLeft(vs[j])],
     r |-> [j \in VoiceIds |-> VoiceRight(vs[j])],
     gain |-> audio_gain]

\* the stream one callback of len frames writes
RECURSIVE OutputStream(_, _)
OutputStream(vs, len) ==
    IF len = 0 THEN <<>>
    ELSE <<FrameOutput(vs)>> \o OutputStream(MixFrames(vs, 1), len - 1)

\* SDL runs the callback with the device lock held from start to end
MixAudio ==
    /\ audio_device = "playing"
    /\ lock_depth = 0
    /\ \E len \in 1..MaxFrames : voices' = MixFrames(voices, len)
    /\ UNCHANGED <<samples, audio_gain, registry, lock_depth, pc, stack,
                   ctl_locals, result>>
    /\ UNCHANGED <<video_vars, main_vars>>

(***************************************************************************)
(* stop_voice (nox.c:247-254), entered at "sv_lock" with cur the voice and *)
(* the head of stack the position to go back to.                           *)
(***************************************************************************)
\* the device lock is recursive: the control thread counts how often it
\* holds it, and the callback runs only while the count is 0
SDL_LockAudioDevice(depth) == depth + 1

\* mutant: an unlock never gives up the last hold
SDL_UnlockAudioDevice_KeepsLast(depth) == maximum(depth - 1, 1)

SDL_UnlockAudioDevice(depth) == depth - 1

SvLock ==
    /\ pc = "sv_lock"
    /\ lock_depth' = SDL_LockAudioDevice(lock_depth)
    /\ pc' = "sv_clear"
    /\ UNCHANGED <<voices, samples, audio_gain, registry, stack, ctl_locals, result>>
    /\ UNCHANGED <<video_vars, main_vars>>

SvClear ==
    /\ pc = "sv_clear"
    /\ voices' = [voices EXCEPT ![cur].sample = NULL]
    /\ pc' = "sv_unlock"
    /\ UNCHANGED <<samples, audio_gain, registry, lock_depth, stack, ctl_locals, result>>
    /\ UNCHANGED <<video_vars, main_vars>>

SvUnlock ==
    /\ pc = "sv_unlock"
    /\ lock_depth' = SDL_UnlockAudioDevice(lock_depth)
    /\ pc' = "sv_unref"
    /\ UNCHANGED <<voices, samples, audio_gain, registry, stack, ctl_locals, result>>
    /\ UNCHANGED <<video_vars, main_vars>>

SvUnref ==
    /\ pc = "sv_unref"
    /\ registry' = luaL_unref(registry, voices[cur].sample_ref)
    /\ pc' = "sv_noref"
    /\ UNCHANGED <<voices, samples, audio_gain, lock_depth, stack, ctl_locals, result>>
    /\ UNCHANGED <<video_vars, main_vars>>

\* mutant: stop_voice forgets to reset sample_ref
ClearRef_Kept(v) == v

ClearRef(v) == [v EXCEPT !.sample_ref = LUA_NOREF]

\* the last statement of stop_voice and the return to the caller; a caller
\* that loops goes on with ++i
SvNoref ==
    /\ pc = "sv_noref"
    /\ voices' = [voices EXCEPT ![cur] = ClearRef(@)]
    /\ IF Head(stack) = "ret"
       THEN Finish(Ok("stop_voice", cur, 0))
       ELSE /\ pc' = Head(stack)
            /\ stack' = Tail(stack)
            /\ i' = i + 1
            /\ cur' = 0
            /\ UNCHANGED <<self, args, snap, result>>
    /\ UNCHANGED <<samples, audio_gain, registry, lock_depth>>
    /\ UNCHANGED <<video_vars, main_vars>>

CallStopVoiceFn(back) ==
    /\ cur' = i
    /\ stack' = <<back>> \o stack
    /\ pc' = "sv_lock"

(***************************************************************************)
(* nox.audio.stop_voice(n), is_voice_playing(n): check_voice, then the     *)
(* function.                                                               *)
(***************************************************************************)
check_voice(n) == n >= 1 /\ n <= AUDIO_VOICES

VoiceArgs == 0..(AUDIO_VOICES + 1)

CallStopVoice(n) ==
    /\ pc = "idle"
    /\ IF check_voice(n)
       THEN /\ cur' = n
            /\ stack' = <<"ret">>
            /\ pc' = "sv_lock"
            /\ UNCHANGED <<self, i, args, snap, result>>
       ELSE Finish(Raise("stop_voice", n, "invalid voice index"))
    /\ UNCHANGED <<voices, samples, audio_gain, registry, lock_depth>>
    /\ UNCHANGED <<video_vars, main_vars>>

CallIsVoicePlaying(n) ==
    /\ pc = "idle"
    /\ IF check_voice(n)
       THEN /\ cur' = n
            /\ pc' = "ivp_read"
            /\ UNCHANGED <<stack, self, i, args, snap, result>>
       ELSE Finish(Raise("is_voice_playing", n, "invalid voice index"))
    /\ UNCHANGED <<voices, samples, audio_gain, registry, lock_depth>>
    /\ UNCHANGED <<video_vars, main_vars>>

IvpRead ==
    /\ pc = "ivp_read"
    /\ Finish(Ok("is_voice_playing", cur, IF voices[cur].sample # NULL THEN 1 ELSE 0))
    /\ UNCHANGED <<voices, samples, audio_gain, registry, lock_depth>>
    /\ UNCHANGED <<video_vars, main_vars>>

(***************************************************************************)
(* nox.audio.stop_all_voices (nox.c:375-384)                               *)
(***************************************************************************)
CallStopAllVoices ==
    /\ pc = "idle"
    /\ pc' = "sa_lock"
    /\ UNCHANGED <<voices, samples, audio_gain, registry, lock_depth, stack,
                   ctl_locals, result>>
    /\ UNCHANGED <<video_vars, main_vars>>

SaLock ==
    /\ pc = "sa_lock"
    /\ lock_depth' = SDL_LockAudioDevice(lock_depth)
    /\ i' = 1
    /\ pc' = "sa_loop"
    /\ UNCHANGED <<voices, samples, audio_gain, registry, stack, self, cur, args, snap, result>>
    /\ UNCHANGED <<video_vars, main_vars>>

SaLoop ==
    /\ pc = "sa_loop"
    /\ IF i <= AUDIO_VOICES
       THEN /\ CallStopVoiceFn("sa_loop")
            /\ UNCHANGED i
       ELSE /\ pc' = "sa_unlock"
            /\ UNCHANGED <<stack, i, cur>>
    /\ UNCHANGED <<voices, samples, audio_gain, registry, lock_depth, self, args, snap, result>>
    /\ UNCHANGED <<video_vars, main_vars>>

SaUnlock ==
    /\ pc = "sa_unlock"
    /\ lock_depth' = SDL_UnlockAudioDevice(lock_depth)
    /\ Finish(Ok("stop_all_voices", 0, 0))
    /\ UNCHANGED <<voices, samples, audio_gain, registry>>
    /\ UNCHANGED <<video_vars, main_vars>>

(***************************************************************************)
(* stop_sample (nox.c:258-267), entered at "ss_lock" with self the sample  *)
(* and the head of stack the position to go back to.                       *)
(***************************************************************************)
\* mutant: the comparison of stop_sample inverted
ReferencesSample_Inverted(v, s) == v.sample # s

ReferencesSample(v, s) == v.sample = s

SsLock ==
    /\ pc = "ss_lock"
    /\ lock_depth' = SDL_LockAudioDevice(lock_depth)
    /\ i' = 1
    /\ pc' = "ss_loop"
    /\ UNCHANGED <<voices, samples, audio_gain, registry, stack, self, cur, args, snap, result>>
    /\ UNCHANGED <<video_vars, main_vars>>

SsLoop ==
    /\ pc = "ss_loop"
    /\ IF i <= AUDIO_VOICES
       THEN IF ReferencesSample(voices[i], self)
            THEN /\ CallStopVoiceFn("ss_loop")
                 /\ UNCHANGED i
            ELSE /\ i' = i + 1
                 /\ UNCHANGED <<pc, stack, cur>>
       ELSE /\ pc' = "ss_unlock"
            /\ UNCHANGED <<stack, i, cur>>
    /\ UNCHANGED <<voices, samples, audio_gain, registry, lock_depth, self, args, snap, result>>
    /\ UNCHANGED <<video_vars, main_vars>>

SsUnlock ==
    /\ pc = "ss_unlock"
    /\ lock_depth' = SDL_UnlockAudioDevice(lock_depth)
    /\ IF Head(stack) = "ret"
       THEN Finish(Ok("stop_sample", self, 0))
       ELSE /\ pc' = Head(stack)
            /\ stack' = Tail(stack)
            /\ i' = 0
            /\ UNCHANGED <<self, cur, args, snap, result>>
    /\ UNCHANGED <<voices, samples, audio_gain, registry>>
    /\ UNCHANGED <<video_vars, main_vars>>

CallStopSample(s) ==
    /\ pc = "idle"
    /\ Scriptable(s)
    /\ IF check_sample(s)
       THEN /\ self' = s
            /\ stack' = <<"ret">>
            /\ pc' = "ss_lock"
            /\ UNCHANGED <<i, cur, args, snap, result>>
       ELSE Finish(Raise("stop_sample", s, DestroyedSampleMsg))
    /\ UNCHANGED <<voices, samples, audio_gain, registry, lock_depth>>
    /\ UNCHANGED <<video_vars, main_vars>>

(***************************************************************************)
(* purge_voices (nox.c:271-280), called by run_event_loop once per frame.  *)
(***************************************************************************)
\* mutant: purge_voices looks for voices that still play
NeedsPurge_Playing(v) == v.sample # NULL /\ v.sample_ref # LUA_NOREF

NeedsPurge(v) == v.sample = NULL /\ v.sample_ref # LUA_NOREF

CallPurgeVoices ==
    /\ pc = "idle"
    /\ pc' = "pv_lock"
    /\ UNCHANGED <<voices, samples, audio_gain, registry, lock_depth, stack,
                   ctl_locals, result>>
    /\ UNCHANGED <<video_vars, main_vars>>

PvLock ==
    /\ pc = "pv_lock"
    /\ lock_depth' = SDL_LockAudioDevice(lock_depth)
    /\ i' = 1
    /\ pc' = "pv_loop"
    /\ UNCHANGED <<voices, samples, audio_gain, registry, stack, self, cur, args, snap, result>>
    /\ UNCHANGED <<video_vars, main_vars>>

PvLoop ==
    /\ pc = "pv_loop"
    /\ IF i <= AUDIO_VOICES
       THEN IF NeedsPurge(voices[i])
            THEN /\ CallStopVoiceFn("pv_loop")
                 /\ UNCHANGED i
            ELSE /\ i' = i + 1
                 /\ UNCHANGED <<pc, stack, cur>>
       ELSE /\ pc' = "pv_unlock"
            /\ UNCHANGED <<stack, i, cur>>
    /\ UNCHANGED <<voices, samples, audio_gain, registry, lock_depth, self, args, snap, result>>
    /\ UNCHANGED <<video_vars, main_vars>>

PvUnlock ==
    /\ pc = "pv_unlock"
    /\ lock_depth' = SDL_UnlockAudioDevice(lock_depth)
    /\ Finish(Ok("purge_voices", 0, 0))
    /\ UNCHANGED <<voices, samples, audio_gain, registry>>
    /\ UNCHANGED <<video_vars, main_vars>>

(***************************************************************************)
(* nox.audio.play_sample (nox.c:472-504).  The C loop index is 0-based and *)
(* the function returns i + 1; the model's i is 1-based and is returned.   *)
(***************************************************************************)
\* mutant: play_sample takes a slot whatever its state
IsFreeVoice_Any(v) == TRUE

\* mutant: play_sample does not look at the held reference
IsFreeVoice_NoRefCheck(v) == v.sample = NULL

IsFreeVoice(v) == v.sample = NULL /\ v.sample_ref = LUA_NOREF

CallPlaySample(s, a) ==
    /\ pc = "idle"
    /\ Scriptable(s)
    /\ IF check_sample(s)
       THEN /\ self' = s
            /\ args' = a
            /\ i' = 1
            /\ pc' = "ps_scan"
            /\ UNCHANGED <<stack, cur, snap, result>>
       ELSE Finish(Raise("play_sample", s, DestroyedSampleMsg))
    /\ UNCHANGED <<voices, samples, audio_gain, registry, lock_depth>>
    /\ UNCHANGED <<video_vars, main_vars>>

PsScan ==
    /\ pc = "ps_scan"
    /\ IF i <= AUDIO_VOICES
       THEN IF IsFreeVoice(voices[i])
            THEN /\ cur' = i
                 /\ pc' = "ps_init"
                 /\ UNCHANGED <<stack, self, i, args, snap, result>>
            ELSE /\ i' = i + 1
                 /\ UNCHANGED <<pc, stack, self, cur, args, snap, result>>
       ELSE Finish(Fail("play_sample", self, "no free audio voice"))
    /\ UNCHANGED <<voices, samples, audio_gain, registry, lock_depth>>
    /\ UNCHANGED <<video_vars, main_vars>>

\* mutant: play_sample does not rewind the slot
InitVoiceFields_StalePosition(v, a) ==
    [v EXCEPT !.gain = clamp(a.gain, 0, FP_ONE),
              !.pitch = clamp(a.pitch, FP_ONE \div 2, 2 * FP_ONE),
              !.pan = clamp(a.pan, 0 - FP_ONE, FP_ONE),
              !.looping = a.looping]

InitVoiceFields(v, a) ==
    [v EXCEPT !.position = 0,
              !.gain = clamp(a.gain, 0, FP_ONE),
              !.pitch = clamp(a.pitch, FP_ONE \div 2, 2 * FP_ONE),
              !.pan = clamp(a.pan, 0 - FP_ONE, FP_ONE),
              !.looping = a.looping]

PsInit ==
    /\ pc = "ps_init"
    /\ voices' = [voices EXCEPT ![cur] = InitVoiceFields(@, args)]
    /\ pc' = "ps_ref"
    /\ UNCHANGED <<samples, audio_gain, registry, lock_depth, stack, ctl_locals, result>>
    /\ UNCHANGED <<video_vars, main_vars>>

PsRef ==
    /\ pc = "ps_ref"
    /\ luaL_ref_id(registry) <= MaxRefs
    /\ voices' = [voices EXCEPT ![cur].sample_ref = luaL_ref_id(registry)]
    /\ registry' = luaL_ref(registry, SampleObj(self))
    /\ pc' = "ps_lock"
    /\ UNCHANGED <<samples, audio_gain, lock_depth, stack, ctl_locals, result>>
    /\ UNCHANGED <<video_vars, main_vars>>

PsLock ==
    /\ pc = "ps_lock"
    /\ lock_depth' = SDL_LockAudioDevice(lock_depth)
    /\ pc' = "ps_publish"
    /\ UNCHANGED <<voices, samples, audio_gain, registry, stack, ctl_locals, result>>
    /\ UNCHANGED <<video_vars, main_vars>>

PsPublish ==
    /\ pc = "ps_publish"
    /\ voices' = [voices EXCEPT ![cur].sample = self]
    /\ pc' = "ps_unlock"
    /\ UNCHANGED <<samples, audio_gain, registry, lock_depth, stack, ctl_locals, result>>
    /\ UNCHANGED <<video_vars, main_vars>>

PsUnlock ==
    /\ pc = "ps_unlock"
    /\ lock_depth' = SDL_UnlockAudioDevice(lock_depth)
    /\ Finish(Ok("play_sample", self, i))
    /\ UNCHANGED <<voices, samples, audio_gain, registry>>
    /\ UNCHANGED <<video_vars, main_vars>>

(***************************************************************************)
(* nox.audio.load_sample (nox.c:400-420).  The userdata of a failed decode *)
(* is not returned to the script and its finalizer finds data == NULL, so  *)
(* the model does not keep it.                                             *)
(***************************************************************************)
NextSampleId == CHOOSE s \in SampleIds :
                    ~samples[s].alloc /\ \A t \in SampleIds : t < s => samples[t].alloc

LoadSample(a, decoded) ==
    /\ pc = "idle"
    /\ \E s \in SampleIds : ~samples[s].alloc
    /\ Handles < MaxHandles
    /\ IF decoded
       THEN /\ samples' = [samples EXCEPT ![NextSampleId] =
                  [alloc |-> TRUE, data |-> TRUE, freq |-> a.freq,
                   length |-> a.length, channels |-> a.channels, frees |-> 0,
                   destroyed |-> FALSE, gced |-> FALSE]]
            /\ Finish(Ok("load_sample", NextSampleId, NextSampleId))
       ELSE /\ UNCHANGED samples
            /\ Finish(Fail("load_sample", 0, "stb_vorbis_decode_memory() failed"))
    /\ UNCHANGED <<voices, audio_gain, registry, lock_depth>>
    /\ UNCHANGED <<video_vars, main_vars>>

(***************************************************************************)
(* nox.audio.destroy_sample (nox.c:388-396), also the __gc metamethod of   *)
(* nox_sample (nox.c:527).                                                 *)
(***************************************************************************)
\* mutant: destroy_sample without its guard
SampleHasData_Always(s) == TRUE

SampleHasData(s) == samples[s].data

DestroySampleBody(s) ==
    IF SampleHasData(s)
    THEN /\ self' = s
         /\ stack' = <<"ds_free">>
         /\ pc' = "ss_lock"
         /\ snap' = {v \in VoiceIds : voices[v].sample = s}
         /\ UNCHANGED <<i, cur, args, result>>
    ELSE Finish(Ok("destroy_sample", s, 0))

\* smps is samples with the caller's bookkeeping for sample s already done
DestroySampleEntry(smps, s) ==
    /\ samples' = IF SampleHasData(s) THEN smps
                  ELSE [smps EXCEPT ![s].destroyed = TRUE]
    /\ DestroySampleBody(s)

CallDestroySample(s) ==
    /\ pc = "idle"
    /\ Scriptable(s)
    /\ DestroySampleEntry(samples, s)
    /\ UNCHANGED <<voices, audio_gain, registry, lock_depth>>
    /\ UNCHANGED <<video_vars, main_vars>>

\* the collector finalizes a sample that nothing refers to any more: the
\* script has dropped it and no voice holds a registry reference to it
Collectable(s) ==
    /\ samples[s].alloc
    /\ ~samples[s].gced
    /\ \A r \in LiveRefs(registry) : registry.slot[r] # SampleObj(s)

GcSample(s) ==
    /\ pc = "idle"
    /\ Collectable(s)
    /\ DestroySampleEntry([samples EXCEPT ![s].gced = TRUE], s)
    /\ UNCHANGED <<voices, audio_gain, registry, lock_depth>>
    /\ UNCHANGED <<video_vars, main_vars>>

\* SDL_FreeWAV(self->data)
DsFree ==
    /\ pc = "ds_free"
    /\ samples' = [samples EXCEPT ![self].frees = minimum(@ + 1, 2)]
    /\ pc' = "ds_null"
    /\ UNCHANGED <<voices, audio_gain, registry, lock_depth, stack, ctl_locals, result>>
    /\ UNCHANGED <<video_vars, main_vars>>

\* self->data = NULL
DsNull ==
    /\ pc = "ds_null"
    /\ samples' = [samples EXCEPT ![self].data = FALSE, ![self].destroyed = TRUE]
    /\ Finish(Ok("destroy_sample", self, 0))
    /\ UNCHANGED <<voices, audio_gain, registry, lock_depth>>
    /\ UNCHANGED <<video_vars, main_vars>>

(***************************************************************************)
(* is_sample_valid, is_sample_playing, get_sample_length                   *)
(***************************************************************************)
IsSampleValid(s) ==
    /\ pc = "idle"
    /\ Scriptable(s)
    /\ Finish(Ok("is_sample_valid", s, IF samples[s].data THEN 1 ELSE 0))
    /\ UNCHANGED <<voices, samples, audio_gain, registry, lock_depth>>
    /\ UNCHANGED <<video_vars, main_vars>>

CallIsSamplePlaying(s) ==
    /\ pc = "idle"
    /\ Scriptable(s)
    /\ IF check_sample(s)
       THEN /\ self' = s
            /\ i' = 1
            /\ pc' = "isp_scan"
            /\ UNCHANGED <<stack, cur, args, snap, result>>
       ELSE Finish(Raise("is_sample_playing", s, DestroyedSampleMsg))
    /\ UNCHANGED <<voices, samples, audio_gain, registry, lock_depth>>
    /\ UNCHANGED <<video_vars, main_vars>>

IspScan ==
    /\ pc = "isp_scan"
    /\ IF i <= AUDIO_VOICES
       THEN IF voices[i].sample = self
            THEN Finish(Ok("is_sample_playing", self, 1))
            ELSE /\ i' = i + 1
                 /\ UNCHANGED <<pc, stack, self, cur, args, snap, result>>
       ELSE Finish(Ok("is_sample_playing", self, 0))
    /\ UNCHANGED <<voices, samples, audio_gain, registry, lock_depth>>
    /\ UNCHANGED <<video_vars, main_vars>>

\* the length in seconds is value / (2 * freq)
GetSampleLength(s) ==
    /\ pc = "idle"
    /\ Scriptable(s)
    /\ IF check_sample(s)
       THEN IF samples[s].channels = 1
            THEN Finish(Ok("get_sample_length", s, 2 * samples[s].length))
            ELSE IF samples[s].channels = 2
                 THEN Finish(Ok("get_sample_length", s, samples[s].length))
                 ELSE Finish(Fail("get_sample_length", s, "invalid number of channels"))
       ELSE Finish(Raise("get_sample_length", s, DestroyedSampleMsg))
    /\ UNCHANGED <<voices, samples, audio_gain, registry, lock_depth>>
    /\ UNCHANGED <<video_vars, main_vars>>

(***************************************************************************)
(* get_global_gain, set_global_gain (nox.c:340-355)                        *)
(***************************************************************************)
CallGetGlobalGain ==
    /\ pc = "idle"
    /\ pc' = "ggg_read"
    /\ UNCHANGED <<voices, samples, audio_gain, registry, lock_depth, stack,
                   ctl_locals, result>>
    /\ UNCHANGED <<video_vars, main_vars>>

GggRead ==
    /\ pc = "ggg_read"
    /\ Finish(Ok("get_global_gain", 0, audio_gain))
    /\ UNCHANGED <<voices, samples, audio_gain, registry, lock_depth>>
    /\ UNCHANGED <<video_vars, main_vars>>

CallSetGlobalGain(g) ==
    /\ pc = "idle"
    /\ args' = [NoArgs EXCEPT !.gain = g]
    /\ pc' = "sgg_lock"
    /\ UNCHANGED <<voices, samples, audio_gain, registry, lock_depth, stack,
                   self, i, cur, snap, result>>
    /\ UNCHANGED <<video_vars, main_vars>>

SggLock ==
    /\ pc = "sgg_lock"
    /\ lock_depth' = SDL_LockAudioDevice(lock_depth)
    /\ pc' = "sgg_write"
    /\ UNCHANGED <<voices, samples, audio_gain, registry, stack, ctl_locals, result>>
    /\ UNCHANGED <<video_vars, main_vars>>

SggWrite ==
    /\ pc = "sgg_write"
    /\ audio_gain' = clamp(args.gain, 0, FP_ONE)
    /\ pc' = "sgg_unlock"
    /\ UNCHANGED <<voices, samples, registry, lock_depth, stack, ctl_locals, result>>
    /\ UNCHANGED <<video_vars, main_vars>>

SggUnlock ==
    /\ pc = "sgg_unlock"
    /\ lock_depth' = SDL_UnlockAudioDevice(lock_depth)
    /\ Finish(Ok("set_global_gain", 0, 0))
    /\ UNCHANGED <<voices, samples, audio_gain, registry>>
    /\ UNCHANGED <<video_vars, main_vars>>

(***************************************************************************)
(* nox.video: images and the render target (nox.c:798-959).  These run on  *)
(* the control thread only and touch nothing the callback reads, so each   *)
(* function is one action.  Every SDL call that can fail is an input       *)
(* (sdl_ok); a function that calls luaL_error stops where the error is     *)
(* raised and keeps what it had done until then.                           *)
(***************************************************************************)
audio_vars == <<voices, samples, audio_gain, lock_depth>>

ImageScriptable(k) == images[k].alloc /\ ~images[k].gced

\* mutant: check_image accepts an image whose texture was destroyed
check_image_Always(k) == TRUE

check_image(k) == images[images[k].root].texture

DestroyedImageMsg == "attempt to operate on destroyed image"

NextImageId == CHOOSE k \in ImageIds :
                   ~images[k].alloc /\ \A m \in ImageIds : m < k => images[m].alloc

\* load_image (render == FALSE) and create_image (render == TRUE); the
\* userdata of a failed creation is not returned to the script
NewRootImage(w, h, render) ==
    [alloc |-> TRUE, root |-> NextImageId, texture |-> TRUE,
     rect |-> [x |-> 0, y |-> 0, w |-> w, h |-> h], target_access |-> render,
     destroys |-> 0, destroyed |-> FALSE, gced |-> FALSE]

LoadImage(w, h, sdl_ok) ==
    /\ pc = "idle"
    /\ \E k \in ImageIds : ~images[k].alloc
    /\ Handles < MaxHandles
    /\ IF sdl_ok
       THEN /\ images' = [images EXCEPT ![NextImageId] = NewRootImage(w, h, FALSE)]
            /\ Finish(Ok("load_image", NextImageId, NextImageId))
       ELSE /\ UNCHANGED images
            /\ Finish(Fail("load_image", 0, "STBIMG_LoadTextureFromMemory() failed"))
    /\ UNCHANGED <<audio_vars, registry, render_target, render_target_ref, target_calls, main_vars>>

CreateImage(w, h, sdl_ok) ==
    /\ pc = "idle"
    /\ \E k \in ImageIds : ~images[k].alloc
    /\ Handles < MaxHandles
    /\ IF sdl_ok
       THEN /\ images' = [images EXCEPT ![NextImageId] = NewRootImage(w, h, TRUE)]
            /\ Finish(Ok("create_image", NextImageId, NextImageId))
       ELSE /\ UNCHANGED images
            /\ Finish(Fail("create_image", 0, "SDL_CreateTexture() failed"))
    /\ UNCHANGED <<audio_vars, registry, render_target, render_target_ref, target_calls, main_vars>>

ChildRect(prect, x, y, w, h) ==
    LET x1 == maximum(0, x + prect.x)
        y1 == maximum(0, y + prect.y)
    IN  [x |-> clamp(x1, 0, prect.w - 1),
         y |-> clamp(y1, 0, prect.h - 1),
         w |-> clamp(w, 0, prect.w - x1),
         h |-> clamp(h, 0, prect.h - y1)]

CreateChildImage(p, x, y, w, h) ==
    /\ pc = "idle"
    /\ ImageScriptable(p)
    /\ \E k \in ImageIds : ~images[k].alloc
    /\ Handles < MaxHandles
    /\ IF check_image(p)
       THEN /\ images' = [images EXCEPT ![NextImageId] =
                  [alloc |-> TRUE, root |-> p, texture |-> FALSE,
                   rect |-> ChildRect(images[p].rect, x, y, w, h),
                   target_access |-> FALSE, destroys |-> 0,
                   destroyed |-> FALSE, gced |-> FALSE]]
            /\ Finish(Ok("create_child_image", p, NextImageId))
       ELSE /\ UNCHANGED images
            /\ Finish(Raise("create_child_image", p, DestroyedImageMsg))
    /\ UNCHANGED <<audio_vars, registry, render_target, render_target_ref, target_calls, main_vars>>

IsImageValid(k) ==
    /\ pc = "idle"
    /\ ImageScriptable(k)
    /\ Finish(Ok("is_image_valid", k, IF images[images[k].root].texture THEN 1 ELSE 0))
    /\ UNCHANGED <<audio_vars, registry, video_vars, main_vars>>

IsChildImage(k) ==
    /\ pc = "idle"
    /\ ImageScriptable(k)
    /\ IF check_image(k)
       THEN Finish(Ok("is_child_image", k, IF images[k].root # k THEN 1 ELSE 0))
       ELSE Finish(Raise("is_child_image", k, DestroyedImageMsg))
    /\ UNCHANGED <<audio_vars, registry, video_vars, main_vars>>

GetImageSize(k) ==
    /\ pc = "idle"
    /\ ImageScriptable(k)
    /\ IF check_image(k)
       THEN Finish(Ok("get_image_size", k, <<images[k].rect.w, images[k].rect.h>>))
       ELSE Finish(Raise("get_image_size", k, DestroyedImageMsg))
    /\ UNCHANGED <<audio_vars, registry, video_vars, main_vars>>

DrawImage(k, sdl_ok) ==
    /\ pc = "idle"
    /\ ImageScriptable(k)
    /\ IF check_image(k)
       THEN IF sdl_ok
            THEN Finish(Ok("draw_image", k, 0))
            ELSE Finish(Raise("draw_image", k, "SDL_RenderCopy() failed"))
       ELSE Finish(Raise("draw_image", k, DestroyedImageMsg))
    /\ UNCHANGED <<audio_vars, registry, video_vars, main_vars>>

\* lua_rawgeti(L, LUA_REGISTRYINDEX, render_target_ref): what the registry
\* holds at that index; msg names its kind, value the object or the link
GetRenderTarget ==
    /\ pc = "idle"
    /\ IF render_target_ref \in DOMAIN registry.slot
       THEN Finish([op |-> "get_render_target", arg |-> 0, status |-> "ok",
                    value |-> registry.slot[render_target_ref].id,
                    msg |-> registry.slot[render_target_ref].kind])
       ELSE Finish([op |-> "get_render_target", arg |-> 0, status |-> "ok",
                    value |-> 0, msg |-> "nil"])
    /\ UNCHANGED <<audio_vars, registry, video_vars, main_vars>>

\* reset_render_target (nox.c:227-234): the reference is released before
\* SDL is asked; when SDL fails the two globals keep their values
\* mutant: reset_render_target does not release the reference
ResetUnref_Skip(reg, ref) == reg

ResetUnref(reg, ref) == luaL_unref(reg, ref)

ResetTarget(rt, sdl_ok) == IF sdl_ok THEN NULL ELSE rt

\* mutant: reset_render_target leaves render_target_ref as it was
ResetRef_Stale(ref, sdl_ok) == ref

ResetRef(ref, sdl_ok) == IF sdl_ok THEN LUA_NOREF ELSE ref

ResetFailedMsg == "SDL_SetRenderTarget(NULL) failed"

\* SDL binds a texture only if it was created with SDL_TEXTUREACCESS_TARGET
CanBind(k, sdl_ok) == sdl_ok /\ images[k].target_access

\* set_render_target(nil) when none is TRUE, set_render_target(image k) else
\* the history keeps the latest MaxCalls calls
LastCalls(s) == IF Len(s) > MaxCalls THEN Tail(s) ELSE s

SetRenderTarget(none, k, reset_ok, bind_ok) ==
    /\ pc = "idle"
    /\ IF none
       THEN /\ registry' = ResetUnref(registry, render_target_ref)
            /\ render_target' = ResetTarget(render_target, reset_ok)
            /\ render_target_ref' = ResetRef(render_target_ref, reset_ok)
            /\ IF reset_ok
               THEN Finish(Ok("set_render_target", IF none THEN 0 ELSE k, 0))
               ELSE Finish(Raise("set_render_target", IF none THEN 0 ELSE k, ResetFailedMsg))
       ELSE /\ ImageScriptable(k)
            /\ IF ~check_image(k)
               THEN /\ Finish(Raise("set_render_target", IF none THEN 0 ELSE k, DestroyedImageMsg))
                    /\ UNCHANGED <<registry, render_target, render_target_ref>>
               ELSE IF images[k].root # k
               THEN /\ Finish(Raise("set_render_target", k,
                                    "cannot use child images as render target"))
                    /\ UNCHANGED <<registry, render_target, render_target_ref>>
               ELSE IF ~reset_ok
               THEN /\ registry' = ResetUnref(registry, render_target_ref)
                    /\ UNCHANGED <<render_target, render_target_ref>>
                    /\ Finish(Raise("set_render_target", IF none THEN 0 ELSE k, ResetFailedMsg))
               ELSE IF ~CanBind(k, bind_ok)
               THEN /\ registry' = ResetUnref(registry, render_target_ref)
                    /\ render_target' = NULL
                    /\ render_target_ref' = LUA_NOREF
                    /\ Finish(Raise("set_render_target", IF none THEN 0 ELSE k, "SDL_SetRenderTarget() failed"))
               ELSE /\ luaL_ref_id(ResetUnref(registry, render_target_ref)) <= MaxRefs
                    /\ registry' = luaL_ref(ResetUnref(registry, render_target_ref),
                                            ImageObj(k))
                    /\ render_target' = k
                    /\ render_target_ref' =
                           luaL_ref_id(ResetUnref(registry, render_target_ref))
                    /\ Finish(Ok("set_render_target", IF none THEN 0 ELSE k, 0))
    /\ target_calls' = IF result'.status = "ok"
                       THEN LastCalls(Append(target_calls, IF none THEN 0 ELSE k))
                       ELSE <<>>
    /\ UNCHANGED <<audio_vars, images, main_vars>>

\* destroy_image (nox.c:834-844), also the __gc metamethod of nox_image
ImageHasTexture(k) == images[k].texture

\* mutant: destroy_image never finds its texture bound
IsBoundTarget_Never(k) == FALSE

IsBoundTarget(k) == render_target = k

\* history entry: destroy_image reset the render target and freed the texture
RESET_BY_DESTROY == -1

DestroyHistory(k, reset_ok) ==
    IF ImageHasTexture(k) /\ IsBoundTarget(k) /\ reset_ok
    THEN <<RESET_BY_DESTROY>> ELSE <<>>

TextureDestroyed(img) ==
    [img EXCEPT !.texture = FALSE, !.destroys = minimum(@ + 1, 2), !.destroyed = TRUE]

\* imgs is images with the caller's bookkeeping for image k already done
DestroyImageBody(imgs, k, reset_ok) ==
    IF ImageHasTexture(k)
    THEN IF IsBoundTarget(k)
         THEN /\ registry' = ResetUnref(registry, render_target_ref)
              /\ render_target' = ResetTarget(render_target, reset_ok)
              /\ render_target_ref' = ResetRef(render_target_ref, reset_ok)
              /\ IF reset_ok
                 THEN /\ images' = [imgs EXCEPT ![k] = TextureDestroyed(@)]
                      /\ Finish(Ok("destroy_image", k, 0))
                 ELSE /\ images' = imgs
                      /\ Finish(Raise("destroy_image", k, ResetFailedMsg))
         ELSE /\ images' = [imgs EXCEPT ![k] = TextureDestroyed(@)]
              /\ Finish(Ok("destroy_image", k, 0))
              /\ UNCHANGED <<registry, render_target, render_target_ref>>
    ELSE /\ images' = [imgs EXCEPT ![k].destroyed = TRUE]
         /\ Finish(Ok("destroy_image", k, 0))
         /\ UNCHANGED <<registry, render_target, render_target_ref>>

DestroyImage(k, reset_ok) ==
    /\ pc = "idle"
    /\ ImageScriptable(k)
    /\ DestroyImageBody(images, k, reset_ok)
    /\ target_calls' = DestroyHistory(k, reset_ok)
    /\ UNCHANGED <<audio_vars, main_vars>>

\* the collector finalizes an image that nothing refers to any more: no
\* child keeps it as its user value and the registry does not hold it
ImageCollectable(k) ==
    /\ images[k].alloc
    /\ ~images[k].gced
    /\ \A r \in LiveRefs(registry) : registry.slot[r] # ImageObj(k)
    /\ \A c \in ImageIds :
          (images[c].alloc /\ ~images[c].gced /\ c # k) => images[c].root # k

GcImage(k, reset_ok) ==
    /\ pc = "idle"
    /\ ImageCollectable(k)
    /\ DestroyImageBody([images EXCEPT ![k].gced = TRUE], k, reset_ok)
    /\ target_calls' = DestroyHistory(k, reset_ok)
    /\ UNCHANGED <<audio_vars, main_vars>>

(***************************************************************************)
(* nox.math.compress and nox.math.decompress (nox.c:602-669).  An LZ4      *)
(* frame is a header, the data blocks of at most LZ4F_BlockSize bytes and  *)
(* the end mark.  LZ4F_decompress reads the source as far as it can: a     *)
(* block goes straight to dst when a whole block fits, otherwise to the    *)
(* context's buffer, which is flushed as dst has room; it gives 0 when it  *)
(* has read the end mark.                                                  *)
(***************************************************************************)
Bytes == {0, 1}
ByteStrings == UNION {[1..n -> Bytes] : n \in 0..MaxBytes}

\* LZ4F_default block size (64 KiB), scaled like DataSize
LZ4F_BlockSize == DataSize

FrameHeader == [tag |-> "header", data |-> <<>>]
EndMark == [tag |-> "endmark", data |-> <<>>]
DataBlock(b) == [tag |-> "block", data |-> b]

RECURSIVE Blocks(_)
Blocks(x) ==
    IF x = <<>> THEN <<>>
    ELSE LET n == minimum(Len(x), LZ4F_BlockSize)
         IN  <<DataBlock(SubSeq(x, 1, n))>> \o Blocks(SubSeq(x, n + 1, Len(x)))

LZ4F_compressFrame(x) == <<FrameHeader>> \o Blocks(x) \o <<EndMark>>

\* one call: tmp is the context's buffer, out what was written to dst
RECURSIVE LZ4F_decompress(_, _, _, _)
LZ4F_decompress(tmp, src, out, cap) ==
    IF tmp # <<>>
    THEN LET n == minimum(Len(tmp), cap - Len(out))
             rest == SubSeq(tmp, n + 1, Len(tmp))
             out2 == out \o SubSeq(tmp, 1, n)
         IN  IF rest # <<>>
             THEN [out |-> out2, src |-> src, tmp |-> rest, hint |-> 1]
             ELSE LZ4F_decompress(<<>>, src, out2, cap)
    ELSE IF src = <<>>
    THEN [out |-> out, src |-> src, tmp |-> tmp, hint |-> 1]
    ELSE IF Head(src).tag = "header"
    THEN LZ4F_decompress(<<>>, Tail(src), out, cap)
    ELSE IF Head(src).tag = "block"
    THEN IF cap - Len(out) >= LZ4F_BlockSize
         THEN LZ4F_decompress(<<>>, Tail(src), out \o Head(src).data, cap)
         ELSE LZ4F_decompress(Head(src).data, Tail(src), out, cap)
    ELSE [out |-> out, src |-> Tail(src), tmp |-> <<>>, hint |-> 0]

NoOutputMsg == "LZ4F_decompress() returned no output"

\* the for (;;) loop of f_nox_math_decompress
RECURSIVE DecompressLoop(_, _, _, _)
DecompressLoop(arg, tmp, src, buffer) ==
    LET r == LZ4F_decompress(tmp, src, <<>>, DataSize)
    IN  IF Len(r.out) = 0
        THEN Fail("decompress", arg, NoOutputMsg)
        ELSE IF r.hint = 0
             THEN Ok("decompress", arg, buffer \o r.out)
             ELSE DecompressLoop(arg, r.tmp, r.src, buffer \o r.out)

MathCompress(x) ==
    /\ pc = "idle"
    /\ Finish(Ok("compress", x, LZ4F_compressFrame(x)))
    /\ UNCHANGED <<voices, samples, audio_gain, registry, lock_depth>>
    /\ UNCHANGED <<video_vars, main_vars>>

\* the script hands the string compress returned to decompress
MathDecompress ==
    /\ pc = "ret"
    /\ result.op = "compress"
    /\ Finish(DecompressLoop(result.value, <<>>, result.value, <<>>))
    /\ UNCHANGED <<voices, samples, audio_gain, registry, lock_depth>>
    /\ UNCHANGED <<video_vars, main_vars>>

NextMath ==
    \/ \E x \in ByteStrings : MathCompress(x)
    \/ MathDecompress
    \/ Return

SpecMath == Init /\ [][NextMath]_vars

(***************************************************************************)
(* Inputs of the script and the specification of the audio side.           *)
(***************************************************************************)
\* 1.0 and 1.5: the second is clamped to 1.0
GainArgs == {FP_ONE, FP_ONE + 1}
PlayArgs == [gain : GainArgs, pitch : {FP_ONE}, pan : {0}, looping : BOOLEAN]
LoadArgs == [freq : {AUDIO_FREQUENCY}, length : {1}, channels : {1}]

SampleCalls(PArgs) ==
    \/ \E a \in LoadArgs, decoded \in BOOLEAN : LoadSample(a, decoded)
    \/ \E s \in SampleIds, a \in PArgs : CallPlaySample(s, a)
    \/ \E s \in SampleIds : CallStopSample(s)
    \/ \E s \in SampleIds : CallDestroySample(s)
    \/ \E s \in SampleIds : GcSample(s)
    \/ \E s \in SampleIds : IsSampleValid(s)
    \/ \E s \in SampleIds : CallIsSamplePlaying(s)
    \/ \E s \in SampleIds : GetSampleLength(s)

VoiceCalls ==
    \/ \E n \in VoiceArgs : CallStopVoice(n)
    \/ \E n \in VoiceArgs : CallIsVoicePlaying(n)
    \/ CallStopAllVoices
    \/ CallGetGlobalGain
    \/ \E g \in GainArgs : CallSetGlobalGain(g)
    \/ CallPurgeVoices

SampleSteps ==
    \/ SvLock \/ SvClear \/ SvUnlock \/ SvUnref \/ SvNoref
    \/ SsLock \/ SsLoop \/ SsUnlock
    \/ PsScan \/ PsInit \/ PsRef \/ PsLock \/ PsPublish \/ PsUnlock
    \/ DsFree \/ DsNull
    \/ IspScan
    \/ Return

VoiceSteps ==
    \/ IvpRead
    \/ SaLock \/ SaLoop \/ SaUnlock
    \/ PvLock \/ PvLoop \/ PvUnlock
    \/ GggRead
    \/ SggLock \/ SggWrite \/ SggUnlock

Next ==
    \/ SampleCalls(PlayArgs) \/ VoiceCalls
    \/ SampleSteps \/ VoiceSteps
    \/ MixAudio

Spec == Init /\ [][Next]_vars

\* the control thread runs a function it has entered to its end; the
\* script is free to make no further call
ControlSteps == SampleSteps \/ VoiceSteps

SpecFair == Spec /\ WF_vars(ControlSteps)

(***************************************************************************)
(* The script working with its handles: the functions that take a sample   *)
(* or an image, on the control thread, without the callback.               *)
(***************************************************************************)
HandlePlayArgs == [gain : {FP_ONE}, pitch : {FP_ONE}, pan : {0}, looping : {TRUE}]
ImageSizes == {2}
ChildArgs == [x : {-1, 1}, y : {0}, w : {3}, h : {1}]

\* Sdl: outcomes of the SDL calls that create, draw or bind a texture;
\* Reset: outcomes of SDL_SetRenderTarget(renderer, NULL)
VideoCalls(Sdl, Reset) ==
    \/ \E w \in ImageSizes, h \in ImageSizes, ok \in Sdl : LoadImage(w, h, ok)
    \/ \E w \in ImageSizes, h \in ImageSizes, ok \in Sdl : CreateImage(w, h, ok)
    \/ \E p \in ImageIds, a \in ChildArgs : CreateChildImage(p, a.x, a.y, a.w, a.h)
    \/ \E k \in ImageIds : IsImageValid(k)
    \/ \E k \in ImageIds : IsChildImage(k)
    \/ \E k \in ImageIds : GetImageSize(k)
    \/ \E k \in ImageIds, ok \in Sdl : DrawImage(k, ok)
    \/ GetRenderTarget
    \/ \E none \in BOOLEAN, k \in ImageIds, r \in Reset, b \in Sdl :
           SetRenderTarget(none, k, r, b)
    \/ \E k \in ImageIds, r \in Reset : DestroyImage(k, r)
    \/ \E k \in ImageIds, r \in Reset : GcImage(k, r)

NextHandles ==
    \/ SampleCalls(HandlePlayArgs) \/ SampleSteps
    \/ VideoCalls(BOOLEAN, {TRUE})

SpecHandles == Init /\ [][NextHandles]_vars

(***************************************************************************)
(* The script working with images and the render target, every SDL call    *)
(* free to fail, child rectangles requested inside, across and outside     *)
(* the parent.                                                             *)
(***************************************************************************)
WideChildArgs == [x : {-1, 1}, y : {0}, w : {2, 3}, h : {1}]

NextVideo ==
    \/ VideoCalls(BOOLEAN, BOOLEAN)
    \/ \E p \in ImageIds, a \in WideChildArgs : CreateChildImage(p, a.x, a.y, a.w, a.h)
    \/ Return

SpecVideo == Init /\ [][NextVideo]_vars

(***************************************************************************)
(* The script and its errors.  A Lua error raised by an API function is    *)
(* either caught by the script (pcall: Return) or leaves the callback,     *)
(* lua_call in run_event_loop and init_nox, and arrives at lua_pcall in    *)
(* main, which prints it and goes on to close the Lua state.               *)
(***************************************************************************)
Unwind ==
    /\ pc = "ret"
    /\ result.status = "error"
    /\ pc' = "exit"
    /\ UNCHANGED <<voices, samples, audio_gain, registry, lock_depth, stack,
                   ctl_locals, result>>
    /\ UNCHANGED <<video_vars, main_vars>>

NextScript ==
    \/ NextHandles
    \/ Unwind

SpecScript == Init /\ [][NextScript]_vars

(***************************************************************************)
(* The end of main (nox.c:1320-1330).  lua_pcall(init_nox) returns when    *)
(* the event loop has ended or with a Lua error; main calls                *)
(* SDL_PauseAudioDevice, lua_close and shutdown_nox.  lua_close calls the   *)
(* __gc metamethod of every userdata that has not been finalized, whatever  *)
(* refers to it, and frees the registry; shutdown_nox closes the device.    *)
(***************************************************************************)
SDL_FALSE == FALSE

\* pause_on true pauses the callback, false lets it run
SDL_PauseAudioDevice(dev, pause_on) ==
    IF dev = "closed" THEN dev
    ELSE IF pause_on THEN "paused" ELSE "playing"

\* event_loop_running is 0, on_quit has returned, init_nox returns
LeaveEventLoop ==
    /\ main_pc = "init_nox"
    /\ pc = "idle"
    /\ pc' = "exit"
    /\ UNCHANGED <<audio_vars, registry, stack, ctl_locals, result, video_vars, main_vars>>

MainPause ==
    /\ main_pc = "init_nox"
    /\ pc = "exit"
    /\ audio_device' = SDL_PauseAudioDevice(audio_device, SDL_FALSE)
    /\ main_pc' = "lua_close"
    /\ pc' = "lua_close"
    /\ result' = NoResult
    /\ UNCHANGED <<audio_vars, registry, stack, ctl_locals, video_vars>>

CloseSample(s) ==
    /\ pc = "lua_close"
    /\ samples[s].alloc
    /\ ~samples[s].gced
    /\ DestroySampleEntry([samples EXCEPT ![s].gced = TRUE], s)
    /\ UNCHANGED <<voices, audio_gain, registry, lock_depth>>
    /\ UNCHANGED <<video_vars, main_vars>>

CloseImage(k) ==
    /\ pc = "lua_close"
    /\ images[k].alloc
    /\ ~images[k].gced
    /\ DestroyImageBody([images EXCEPT ![k].gced = TRUE], k, TRUE)
    /\ target_calls' = DestroyHistory(k, TRUE)
    /\ UNCHANGED <<audio_vars, main_vars>>

AllFinalized ==
    /\ \A s \in SampleIds : samples[s].alloc => samples[s].gced
    /\ \A k \in ImageIds : images[k].alloc => images[k].gced

LuaClosed ==
    /\ pc = "lua_close"
    /\ AllFinalized
    /\ registry' = [freelist |-> 0, slot |-> <<>>]
    /\ main_pc' = "shutdown_nox"
    /\ pc' = "shutdown_nox"
    /\ UNCHANGED <<audio_vars, stack, ctl_locals, result, video_vars, audio_device>>

\* SDL_CloseAudioDevice
ShutdownNox ==
    /\ pc = "shutdown_nox"
    /\ audio_device' = "closed"
    /\ main_pc' = "done"
    /\ pc' = "done"
    /\ UNCHANGED <<audio_vars, registry, stack, ctl_locals, result, video_vars>>

ShutdownPlayArgs == [gain : {FP_ONE}, pitch : {FP_ONE}, pan : {0}, looping : BOOLEAN]

MainSteps ==
    \/ Unwind
    \/ LeaveEventLoop
    \/ MainPause
    \/ \E s \in SampleIds : CloseSample(s)
    \/ \E k \in ImageIds : CloseImage(k)
    \/ LuaClosed
    \/ ShutdownNox

NextShutdown ==
    \/ SampleCalls(ShutdownPlayArgs) \/ SampleSteps
    \/ CallPurgeVoices \/ PvLock \/ PvLoop \/ PvUnlock
    \/ \E w \in ImageSizes, h \in ImageSizes : LoadImage(w, h, TRUE)
    \/ MixAudio
    \/ MainSteps

SpecShutdown == Init /\ [][NextShutdown]_vars

(***************************************************************************)
(* Voices that play to their end: samples of more than one frame, looping  *)
(* and not, no stop call from the script; the event loop purges.  The fair *)
(* specification adds what the scheduling gives: a C function that was     *)
(* entered runs on, the callback gets the device lock again and again,     *)
(* and run_event_loop calls purge_voices in every iteration.               *)
(***************************************************************************)
MixLoadArgs == [freq : {AUDIO_FREQUENCY}, length : {2}, channels : {1}]
MixPlayArgs == [gain : {FP_ONE}, pitch : {FP_ONE}, pan : {0}, looping : BOOLEAN]

MixerSteps ==
    \/ SvLock \/ SvClear \/ SvUnlock \/ SvUnref \/ SvNoref
    \/ PsScan \/ PsInit \/ PsRef \/ PsLock \/ PsPublish \/ PsUnlock
    \/ PvLock \/ PvLoop \/ PvUnlock
    \/ Return

NextMixer ==
    \/ \E a \in MixLoadArgs, decoded \in BOOLEAN : LoadSample(a, decoded)
    \/ \E s \in SampleIds, a \in MixPlayArgs : CallPlaySample(s, a)
    \/ CallPurgeVoices
    \/ MixerSteps
    \/ MixAudio

SpecMixer == Init /\ [][NextMixer]_vars

SpecMixerFair ==
    /\ SpecMixer
    /\ WF_vars(MixerSteps)
    /\ SF_vars(MixAudio)
    /\ SF_vars(CallPurgeVoices)

(***************************************************************************)
(* The pan: mono samples played with a pan inside and outside of [-1, 1].  *)
(***************************************************************************)
PanArgs == {0 - FP_ONE - 1, 1}
PanPlayArgs == [gain : {FP_ONE}, pitch : {FP_ONE}, pan : PanArgs, looping : BOOLEAN]

NextPan ==
    \/ \E a \in MixLoadArgs, decoded \in BOOLEAN : LoadSample(a, decoded)
    \/ \E s \in SampleIds, a \in PanPlayArgs : CallPlaySample(s, a)
    \/ CallPurgeVoices
    \/ MixerSteps
    \/ MixAudio

SpecPan == Init /\ [][NextPan]_vars

(***************************************************************************)
(* Rates and channels: mono and stereo samples at the output rate and at   *)
(* half of it, played at pitch 0.5, 1 and 2.                               *)
(***************************************************************************)
SoundLoadArgs == [freq : {AUDIO_FREQUENCY \div 2, AUDIO_FREQUENCY},
                  length : {3}, channels : {1, 2}]
SoundPlayArgs == [gain : {FP_ONE}, pitch : {FP_ONE \div 2, FP_ONE, 2 * FP_ONE},
                  pan : {0}, looping : {FALSE}]

NextSound ==
    \/ \E a \in SoundLoadArgs, decoded \in BOOLEAN : LoadSample(a, decoded)
    \/ \E s \in SampleIds, a \in SoundPlayArgs : CallPlaySample(s, a)
    \/ CallPurgeVoices
    \/ MixerSteps
    \/ MixAudio

SpecSound == Init /\ [][NextSound]_vars

(***************************************************************************)
(* Properties.                                                             *)
(***************************************************************************)
TypeOK ==
    /\ lock_depth \in 0..2
    /\ \A v \in VoiceIds : voices[v].sample \in {NULL} \cup SampleIds

SlotFree(v) == voices[v].sample = NULL /\ voices[v].sample_ref = LUA_NOREF
SlotActive(v) == voices[v].sample # NULL
SlotZombie(v) == voices[v].sample = NULL /\ voices[v].sample_ref # LUA_NOREF
AllBusy == \A v \in VoiceIds : ~SlotFree(v)

\* C1: in every reachable state, whatever the interleaving of the control
\* thread with the callback, a voice whose sample pointer is set points to a
\* sample whose data pointer is set and whose buffer has not been freed; this
\* includes the states of destroy_sample after its voice scan.
C1_FreedBufferNeverMixed ==
    \A v \in VoiceIds :
        SlotActive(v) =>
            /\ samples[voices[v].sample].data
            /\ samples[voices[v].sample].frees = 0

\* the buffer of self has been freed and its pointer not yet cleared, every
\* voice was playing it when destroy_sample was called, none does now
C1_Witness ==
    /\ pc = "ds_null"
    /\ samples[self].frees = 1
    /\ snap = VoiceIds
    /\ \A v \in VoiceIds : ~SlotActive(v)

\* C2: the reference play_sample takes is released exactly once.  Every
\* luaL_unref of a voice's reference finds that reference still held for a
\* sample (never a second release); the references the registry holds are
\* those of the voices, one each; and when purge_voices has scanned the pool
\* no exhausted voice holds its reference any more.
HoldsRef(v) ==
    /\ voices[v].sample_ref # LUA_NOREF
    /\ ~(pc = "sv_noref" /\ cur = v)

C2_ReferenceReleasedOnce ==
    /\ (pc = "sv_unref" /\ voices[cur].sample_ref # LUA_NOREF) =>
           /\ RefLive(registry, voices[cur].sample_ref)
           /\ registry.slot[voices[cur].sample_ref].kind = "sample"
    /\ \A v \in VoiceIds :
           HoldsRef(v) =>
               /\ RefLive(registry, voices[v].sample_ref)
               /\ registry.slot[voices[v].sample_ref].kind = "sample"
               /\ SlotActive(v) =>
                      registry.slot[voices[v].sample_ref].id = voices[v].sample
    /\ \A v, w \in VoiceIds :
           (HoldsRef(v) /\ HoldsRef(w) /\ v # w) =>
               voices[v].sample_ref # voices[w].sample_ref
    /\ LiveRefs(registry) = {voices[v].sample_ref : v \in {w \in VoiceIds : HoldsRef(w)}}
    /\ pc = "pv_unlock" => \A v \in VoiceIds : ~SlotZombie(v)

\* purge_voices releases the reference of a non-looping voice that the
\* callback has cleared at the end of its sample
C2_Witness ==
    /\ pc = "sv_unref"
    /\ Head(stack) = "pv_loop"
    /\ ~voices[cur].looping
    /\ Pos(voices[cur]) >= 1
    /\ RefLive(registry, voices[cur].sample_ref)

\* C3: while play_sample scans, it takes a slot only if one is free and it
\* gives up only if none is: with fewer than AUDIO_VOICES slots busy the call
\* succeeds, with all of them busy it fails with "no free audio voice" and
\* none of its steps changes a slot; never are more voices active than the
\* pool has slots.
C3_PlayStep ==
    /\ Cardinality({v \in VoiceIds : SlotActive(v)}) <= AUDIO_VOICES
    /\ (pc = "ps_scan" /\ (pc' # pc \/ i' # i)) =>
           /\ AllBusy =>
                  /\ pc' # "ps_init"
                  /\ voices' = voices
                  /\ registry' = registry
                  /\ i > AUDIO_VOICES =>
                         /\ pc' = "ret"
                         /\ result' = Fail("play_sample", self, "no free audio voice")
           /\ ~AllBusy => pc' # "ret"
           /\ pc' = "ps_init" => SlotFree(cur')
    /\ (pc = "ps_unlock" /\ pc' # pc) =>
           /\ result' = Ok("play_sample", self, cur)
           /\ voices'[cur].sample = self
           /\ voices'[cur].sample_ref # LUA_NOREF

C3_PoolCapacity == [][C3_PlayStep]_vars

\* play_sample has failed on a full pool
C3_Witness ==
    /\ pc = "ret"
    /\ result.op = "play_sample"
    /\ result.status = "fail"
    /\ \A v \in VoiceIds : SlotActive(v)

\* C4: every read and every write of a slot's sample pointer and of the
\* global gain is done while the audio device lock is held.  The positions
\* are those whose next step reads or writes voices[..].sample or
\* audio_gain.
SharedAccessPcs ==
    {"sv_clear", "ps_publish", "sgg_write", "ss_loop", "pv_loop",
     "ivp_read", "isp_scan", "ggg_read", "ps_scan"}

C4_SharedStateUnderLock == pc \in SharedAccessPcs => lock_depth > 0

\* C5: a callback leaves the registry and every voice's held reference,
\* gain, pitch, pan and loop flag as they are; a sample pointer it changes
\* was set, belonged to a non-looping voice, and is NULL afterwards.
C5_MixStep ==
    MixAudio =>
        /\ registry' = registry
        /\ \A v \in VoiceIds :
               /\ voices'[v].sample_ref = voices[v].sample_ref
               /\ voices'[v].gain = voices[v].gain
               /\ voices'[v].pitch = voices[v].pitch
               /\ voices'[v].pan = voices[v].pan
               /\ voices'[v].looping = voices[v].looping
               /\ voices'[v].sample # voices[v].sample =>
                      /\ voices[v].sample # NULL
                      /\ voices'[v].sample = NULL
                      /\ ~voices[v].looping

C5_MixerKeepsReferences == [][C5_MixStep]_vars

\* the callback has cleared a voice at the end of its sample and the
\* reference play_sample took is still held
C5_Witness ==
    /\ pc = "idle"
    /\ \E v \in VoiceIds :
           /\ SlotZombie(v)
           /\ ~voices[v].looping
           /\ RefLive(registry, voices[v].sample_ref)

\* C6: the control thread takes or releases a registry reference only while
\* it does not hold the audio device lock.
C6_NoRefcountUnderLock ==
    /\ (pc = "sv_unref" /\ voices[cur].sample_ref # LUA_NOREF) => lock_depth = 0
    /\ pc = "ps_ref" => lock_depth = 0

\* C7: stop_voice called on a slot that is free (as a first call leaves it)
\* changes neither the pool nor the registry, and stop_voice called on a
\* slot in any state leaves that slot free.
SvPcs == {"sv_lock", "sv_clear", "sv_unlock", "sv_unref", "sv_noref"}

C7_StopStep ==
    /\ (pc \in SvPcs /\ pc' # pc /\ SlotFree(cur)) =>
           /\ voices' = voices
           /\ registry' = registry
    /\ (pc = "sv_noref" /\ pc' # pc) =>
           /\ voices'[cur].sample = NULL
           /\ voices'[cur].sample_ref = LUA_NOREF
           /\ \A r \in LiveRefs(registry') :
                  \E v \in VoiceIds : voices'[v].sample_ref = r

C7_StopVoiceIdempotent == [][C7_StopStep]_vars

\* nox.audio.stop_voice runs on a slot that an earlier stop has freed
C7_Witness ==
    /\ pc = "sv_unref"
    /\ Head(stack) = "ret"
    /\ SlotFree(cur)
    /\ voices[cur].looping
    /\ registry.freelist # 0

\* what destroy_sample leaves in the pool: the voices that referenced the
\* sample when it was called are stopped once its scan is over, and no voice
\* references a destroyed sample
DestroyStopsVoices ==
    /\ pc \in {"ds_free", "ds_null"} =>
           /\ \A v \in snap : ~SlotActive(v)
           /\ \A v \in VoiceIds : voices[v].sample # self
    /\ \A s \in SampleIds :
           samples[s].destroyed => \A v \in VoiceIds : voices[v].sample # s

\* a call of is_sample_playing on a destroyed sample has returned
AskedDestroyedSample ==
    /\ pc = "ret"
    /\ result.op = "is_sample_playing"
    /\ samples[result.arg].destroyed

C8_Step ==
    /\ DestroyStopsVoices
    /\ AskedDestroyedSample =>
           result = Raise("is_sample_playing", result.arg, DestroyedSampleMsg)
    /\ (pc = "ivp_read" /\ pc' # pc) =>
           result' = Ok("is_voice_playing", cur, IF SlotActive(cur) THEN 1 ELSE 0)

HandleOps ==
    {"play_sample", "stop_sample", "get_sample_length", "is_sample_playing"}
ImageOps ==
    {"draw_image", "get_image_size", "create_child_image", "set_render_target",
     "is_child_image"}

C9_DestroyedStaysInvalid ==
    /\ \A s \in SampleIds : samples[s].destroyed => ~samples[s].data
    /\ \A k \in ImageIds :
           images[k].destroyed => ~images[images[k].root].texture
    /\ (pc = "ret" /\ result.op \in HandleOps /\ samples[result.arg].destroyed) =>
           result.status # "ok"
    /\ (pc = "ret" /\ result.op \in ImageOps /\ result.arg \in ImageIds
            /\ images[result.arg].destroyed) =>
           result.status # "ok"

\* C10: the buffer of a sample and the texture of a root image are freed at
\* most once, and exactly once when destroy has returned; a destroy call or
\* finalizer that finds the handle destroyed changes nothing the program
\* holds.
ProgramState ==
    <<voices, registry, audio_gain, render_target, render_target_ref,
      [s \in SampleIds |-> <<samples[s].data, samples[s].frees>>],
      [k \in ImageIds |-> <<images[k].texture, images[k].destroys>>]>>

C10_FreedOnce ==
    /\ \A s \in SampleIds :
           /\ samples[s].frees <= 1
           /\ samples[s].destroyed => samples[s].frees = 1
           /\ (samples[s].alloc /\ samples[s].frees = 0 /\ ~(pc = "ds_null" /\ self = s))
                  => samples[s].data
    /\ \A k \in ImageIds :
           /\ images[k].destroys <= 1
           /\ (images[k].destroyed /\ images[k].root = k) => images[k].destroys = 1
           /\ (images[k].alloc /\ images[k].root = k /\ images[k].destroys = 0)
                  => images[k].texture

C10_DestroyStep ==
    /\ C10_FreedOnce
    /\ (pc = "idle" /\ pc' = "ret" /\ result'.op = "destroy_sample"
            /\ samples[result'.arg].destroyed) => ProgramState' = ProgramState
    /\ (pc = "idle" /\ pc' = "ret" /\ result'.op = "destroy_image"
            /\ images[result'.arg].destroyed) => ProgramState' = ProgramState
    /\ \A s \in SampleIds :
           (pc = "idle" /\ samples[s].destroyed /\ self' = s) => pc' # "ss_lock" \/ stack' # <<"ds_free">>

C10_DestroyIdempotent == [][C10_DestroyStep]_vars

\* the finalizer has run on a sample and on a root image that the script had
\* destroyed before
C10_Witness ==
    /\ pc = "ret"
    /\ result.op \in {"destroy_sample", "destroy_image"}
    /\ \E s \in SampleIds :
           samples[s].gced /\ samples[s].destroyed /\ samples[s].frees = 1
    /\ \E k \in ImageIds :
           /\ images[k].gced /\ images[k].destroyed
           /\ images[k].root = k /\ images[k].destroys = 1

(***************************************************************************)
(* Child images.                                                           *)
(***************************************************************************)
IsChild(k) == images[k].alloc /\ images[k].root # k

Contained(c, p) ==
    /\ p.x <= c.x
    /\ p.y <= c.y
    /\ c.x + c.w <= p.x + p.w
    /\ c.y + c.h <= p.y + p.h
    /\ c.w >= 0
    /\ c.h >= 0

\* a parent the claim speaks of: a root, or a child with a non-zero origin
RootOrShifted(p) ==
    \/ images[p].root = p
    \/ images[p].rect.x # 0
    \/ images[p].rect.y # 0

\* C11: the rectangle of every child created from a root, or from a child
\* whose rectangle has a non-zero origin, lies within its parent's rectangle
\* and has a non-negative width and height.
C11_ChildWithinParent ==
    \A c \in ImageIds :
        (IsChild(c) /\ RootOrShifted(images[c].root)) =>
            Contained(images[c].rect, images[images[c].root].rect)

\* the same for children of a root image only
ChildWithinRoot ==
    \A c \in ImageIds :
        (IsChild(c) /\ images[images[c].root].root = images[c].root) =>
            Contained(images[c].rect, images[images[c].root].rect)

\* the requested rectangle, in the coordinates of the texture
Requested(prect, a) == [x |-> prect.x + a.x, y |-> prect.y + a.y, w |-> a.w, h |-> a.h]

Intersection(a, b) ==
    LET x == maximum(a.x, b.x)
        y == maximum(a.y, b.y)
    IN  [x |-> x, y |-> y,
         w |-> maximum(0, minimum(a.x + a.w, b.x + b.w) - x),
         h |-> maximum(0, minimum(a.y + a.h, b.y + b.h) - y)]

IsEmpty(r) == r.w <= 0 \/ r.h <= 0

\* an empty intersection has no position of its own
SameRect(r, s) == IF IsEmpty(s) THEN IsEmpty(r) ELSE r = s

\* C12: for every image create_child_image accepts as parent and every
\* requested (x, y, w, h), the rectangle the child is given equals the
\* intersection of the requested rectangle with the parent's rectangle.
C12_ChildIsIntersection ==
    \A p \in ImageIds : \A a \in WideChildArgs :
        (ImageScriptable(p) /\ check_image(p)) =>
            SameRect(ChildRect(images[p].rect, a.x, a.y, a.w, a.h),
                     Intersection(Requested(images[p].rect, a), images[p].rect))

RECURSIVE UltimateRoot(_)
UltimateRoot(k) == IF images[k].root = k THEN k ELSE UltimateRoot(images[k].root)

\* C13: an image, whether its parent is a root or a child, passes
\* check_image (is valid; draw, get_size and create_child accept it) exactly
\* when the texture of the root it ultimately aliases has not been destroyed.
C13_NestedChildValid ==
    \A k \in ImageIds :
        ImageScriptable(k) => (check_image(k) <=> images[UltimateRoot(k)].texture)

\* the same for roots and their direct children only
DirectChildValid ==
    \A k \in ImageIds :
        (ImageScriptable(k) /\ images[images[k].root].root = images[k].root) =>
            (check_image(k) <=> images[UltimateRoot(k)].texture)

(***************************************************************************)
(* The render target.                                                      *)
(***************************************************************************)
\* the latest three set_render_target calls that returned normally, with
\* no failed call and no destroy_image between them, were s
LatestCalls(s) ==
    /\ Len(target_calls) >= Len(s)
    /\ SubSeq(target_calls, Len(target_calls) - Len(s) + 1, Len(target_calls)) = s

DefaultTargetBound ==
    /\ render_target = NULL
    /\ render_target_ref = LUA_NOREF
    /\ \A r \in LiveRefs(registry) : registry.slot[r].kind # "image"

\* C14: after set_render_target(A), set_render_target(B) and
\* set_render_target(nil) for two root images A and B, the default target
\* is bound, no image is bound or kept alive by the registry, and A and B
\* are both still valid.
C14_BindBindUnbind ==
    \A A \in ImageIds, B \in ImageIds :
        LatestCalls(<<A, B, 0>>) =>
            /\ DefaultTargetBound
            /\ check_image(A) /\ images[A].root = A
            /\ check_image(B) /\ images[B].root = B

C14_Witness ==
    /\ pc = "ret"
    /\ result.op = "set_render_target"
    /\ result.status = "ok"
    /\ \E A \in ImageIds, B \in ImageIds : A # B /\ LatestCalls(<<A, B, 0>>)

BoundTextureAlive == render_target # NULL => images[render_target].texture

DestroyReturns(k) ==
    /\ pc = "idle"
    /\ pc' = "ret"
    /\ result'.op = "destroy_image"
    /\ result'.arg = k

\* destroy_image on the image whose texture is bound: either the target is
\* reset, its reference released, and the texture freed, or the reset
\* failed and the texture is not freed
C15_DestroyStep ==
    \A k \in ImageIds :
        (DestroyReturns(k) /\ images[k].texture /\ render_target = k) =>
            IF result'.status = "ok"
            THEN /\ render_target' = NULL
                 /\ render_target_ref' = LUA_NOREF
                 /\ ~RefLive(registry', render_target_ref)
                 /\ ~images'[k].texture
            ELSE /\ images'[k].texture
                 /\ render_target' = k

\* C15: in every reachable state the bound render target is not a destroyed
\* texture; destroying the bound image resets the target to the default
\* (nothing bound, reference released) and only then frees the texture.
C15_NoDanglingTarget == []BoundTextureAlive /\ [][C15_DestroyStep]_vars

C15_Witness ==
    /\ pc = "ret"
    /\ result.op = "destroy_image"
    /\ result.status = "ok"
    /\ target_calls = <<RESET_BY_DESTROY>>
    /\ ~images[result.arg].texture
    /\ render_target = NULL

BindingState == <<render_target, render_target_ref, registry>>

SetTargetReturns(k) ==
    /\ pc = "idle"
    /\ pc' = "ret"
    /\ result'.op = "set_render_target"
    /\ result'.arg = k

ChildImageMsg == "cannot use child images as render target"

\* the texture the image draws from has been destroyed
TextureGone(k) == ~images[images[k].root].texture

\* C16: set_render_target called with a child image or with an image whose
\* texture was destroyed fails, and the bound texture, the held reference
\* and the registry are what they were before the call.
C16_RejectStep ==
    \A k \in ImageIds :
        (SetTargetReturns(k) /\ (images[k].root # k \/ TextureGone(k))) =>
            /\ result'.status = "error"
            /\ result'.msg \in {ChildImageMsg, DestroyedImageMsg}
            /\ BindingState' = BindingState

C16_OnlyRootBinds == [][C16_RejectStep]_vars

\* a child was refused while another image was bound
C16_Witness ==
    /\ pc = "ret"
    /\ result.op = "set_render_target"
    /\ result.status = "error"
    /\ result.msg = ChildImageMsg
    /\ render_target # NULL
    /\ RefLive(registry, render_target_ref)

\* a destroyed root was refused
C16_WitnessDestroyed ==
    /\ pc = "ret"
    /\ result.op = "set_render_target"
    /\ result.msg = DestroyedImageMsg
    /\ images[result.arg].root = result.arg
    /\ images[result.arg].destroys > 0

\* the image recorded as bound is the one the registry keeps alive
BoundHoldsRef ==
    render_target # NULL =>
        /\ RefLive(registry, render_target_ref)
        /\ registry.slot[render_target_ref] = ImageObj(render_target)

SetTargetStep ==
    /\ pc = "idle"
    /\ pc' = "ret"
    /\ result'.op = "set_render_target"

C17_FailStep ==
    (SetTargetStep /\ result'.status # "ok") => BindingState' = BindingState

\* C17: a set_render_target call that raises an error, from the reset of
\* the old target or from the binding of the new one, leaves the bound
\* texture, the held reference and the registry as they were; in no
\* reachable state is an image recorded as bound without its reference.
C17_SwapAtomic == []BoundHoldsRef /\ [][C17_FailStep]_vars

(***************************************************************************)
(* Errors.                                                                 *)
(***************************************************************************)
DecodeFailedMsg == "stb_vorbis_decode_memory() failed"
NoFreeVoiceMsg == "no free audio voice"

RecoverableMsgs ==
    {DecodeFailedMsg, NoFreeVoiceMsg, DestroyedSampleMsg, DestroyedImageMsg,
     ChildImageMsg}

\* C18: a failed decode, an exhausted voice pool, an operation on a
\* destroyed sample or image and the binding of a child image are each given
\* back to the caller as a returned error value (nil and a message), and
\* none of them ends the event loop.
C18_ErrorsAreValues ==
    (pc \in {"ret", "exit"} /\ result.msg \in RecoverableMsgs) =>
        /\ result.status = "fail"
        /\ pc # "exit"

\* the conditions that push_error reports
ReturnedErrors ==
    (pc \in {"ret", "exit"} /\ result.msg \in {DecodeFailedMsg, NoFreeVoiceMsg}) =>
        /\ result.status = "fail"
        /\ pc # "exit"

(***************************************************************************)
(* Voices that reach the end of their sample.                              *)
(***************************************************************************)
\* the voice advances by exactly one PCM frame per output frame
OneFramePerFrame(v) ==
    /\ v.sample # NULL
    /\ samples[v.sample].channels = 1
    /\ PosStep(v, samples[v.sample]) = POS_ONE
    /\ v.position % POS_ONE = 0

\* 0, 1, ..., length-1, 0, 1, ... continued from index first for len frames
Cycle(first, length, len) == [k \in 1..len |-> (first + k - 1) % length]

\* C19: a looping voice that advances by one PCM frame per output frame
\* reads, over successive output frames, the indices 0, 1, ..., length-1,
\* 0, 1, ... from wherever it stands: none skipped, none repeated, and no
\* output frame without a value of the voice.
C19_LoopIsSeamless ==
    \A v \in VoiceIds :
        (OneFramePerFrame(voices[v]) /\ voices[v].looping) =>
            LET length == samples[voices[v].sample].length
            IN  MixedIndices(voices[v], length + 1) =
                    Cycle(Pos(voices[v]), length, length + 1)

\* without the claim on the frame of the wrap: the indices read are in
\* order, and the position is 0 after the frame in which it was length
LoopInOrder ==
    \A v \in VoiceIds :
        (OneFramePerFrame(voices[v]) /\ voices[v].looping) =>
            LET length == samples[voices[v].sample].length
                read == SelectSeq(MixedIndices(voices[v], length + 2),
                                  LAMBDA x : x # Silent)
            IN  /\ read = Cycle(Pos(voices[v]) % length, length, Len(read))
                /\ Len(read) >= length
                /\ Pos(voices[v]) = length => MixVoice(voices[v]).position = 0

\* a callback never clears a looping voice, and leaves the reference of a
\* voice it clears in place
C20_MixStep ==
    MixAudio =>
        \A v \in VoiceIds :
            /\ (SlotActive(v) /\ voices[v].looping) => voices'[v].sample = voices[v].sample
            /\ (SlotActive(v) /\ voices'[v].sample = NULL) =>
                   /\ voices'[v].sample_ref = voices[v].sample_ref
                   /\ voices'[v].sample_ref # LUA_NOREF

\* the mixer cleared the slot: its sample is NULL and its reference held,
\* and it is not the slot play_sample is about to publish
EndedByMixer(v) ==
    /\ SlotZombie(v)
    /\ ~(pc \in {"ps_lock", "ps_publish"} /\ cur = v)

\* purge_voices returns with every slot the mixer had cleared free again
C20_PurgeStep ==
    (pc = "pv_unlock" /\ pc' = "ret") =>
        \A v \in VoiceIds : voices'[v].sample = NULL => SlotFree(v)'

ErasePan(vs) == [j \in VoiceIds |-> [vs[j] EXCEPT !.pan = 0]]

\* a callback of any length writes the same stream and leaves the same
\* voices whatever the pans are
PanNotMixed ==
    \A len \in 1..MaxFrames :
        /\ OutputStream(ErasePan(voices), len) = OutputStream(voices, len)
        /\ MixFrames(ErasePan(voices), len) = ErasePan(MixFrames(voices, len))

PanStored ==
    \A v \in VoiceIds : voices[v].pan >= 0 - FP_ONE /\ voices[v].pan <= FP_ONE

\* play_sample stores the clamped pan, and what else it stores is the same
\* for every pan argument
C21_PlayStep ==
    (pc = "ps_init" /\ pc' = "ps_ref") =>
        /\ voices'[cur].pan = clamp(args.pan, 0 - FP_ONE, FP_ONE)
        /\ \A p \in PanArgs \cup {0} :
               ErasePan([voices EXCEPT ![cur] =
                            InitVoiceFields(@, [args EXCEPT !.pan = p])])
                   = ErasePan(voices')

\* C21: the pan does not influence the mix: states that differ only in the
\* pans give the same output stream and the same voices but for the pan,
\* play_sample stores nothing else that depends on its pan argument, and
\* the stored pan is within [-1, 1].
C21_PanIgnored == [](PanNotMixed /\ PanStored) /\ [][C21_PlayStep]_vars

\* a voice played with pan -1.5 holds -1 and has been mixed
C21_Witness ==
    \E v \in VoiceIds :
        /\ SlotActive(v)
        /\ voices[v].pan = 0 - FP_ONE
        /\ voices[v].position > 0

(***************************************************************************)
(* play_sample.                                                            *)
(***************************************************************************)
PlayPcs == {"ps_scan", "ps_init", "ps_ref", "ps_lock", "ps_publish", "ps_unlock"}

\* a step of play_sample itself, not of the callback
PlayStep == pc \in PlayPcs /\ (pc' # pc \/ i' # i)

LowestFree(v) == SlotFree(v) /\ \A j \in VoiceIds : j < v => ~SlotFree(j)

C22_PlayStep ==
    /\ (pc = "ps_scan" /\ pc' = "ps_init") => LowestFree(cur')
    /\ PlayStep => \A v \in VoiceIds : v # cur => voices'[v] = voices[v]
    /\ (pc = "ps_unlock" /\ pc' = "ret") =>
           /\ result' = Ok("play_sample", self, cur)
           /\ cur \in 1..AUDIO_VOICES
           /\ voices'[cur].sample = self
           /\ voices'[cur].position = 0
           /\ \A j \in VoiceIds : j < cur => ~SlotFree(j)'

\* C22: play_sample on a valid sample takes the lowest-indexed slot with
\* neither a sample pointer nor a held reference, never a slot the mixer
\* has cleared and that still holds its reference; it returns the 1-based
\* index of the slot, whose position is 0 and whose sample is the given one,
\* and its steps leave every other slot as it is.
C22_FirstFit == [][C22_PlayStep]_vars

\* slot 1 was cleared by the mixer and not purged: play_sample took slot 2
C22_Witness ==
    /\ pc = "ret"
    /\ result.op = "play_sample"
    /\ result.status = "ok"
    /\ result.value = 2
    /\ SlotZombie(1)
    /\ voices[2].sample = result.arg

(***************************************************************************)
(* compress and decompress.                                                *)
(***************************************************************************)
Decompressed == pc = "ret" /\ result.op = "decompress"

\* C23: decompress gives back x for the compressed form of every byte
\* string x, the empty string and the strings whose length is a multiple
\* of the output chunk included.
C23_RoundTrip ==
    Decompressed =>
        \A x \in ByteStrings :
            result.arg = LZ4F_compressFrame(x) =>
                result.status = "ok" /\ result.value = x

\* the same for the strings that are not empty
RoundTripNonEmpty ==
    Decompressed =>
        \A x \in ByteStrings \ {<<>>} :
            result.arg = LZ4F_compressFrame(x) =>
                result.status = "ok" /\ result.value = x

(***************************************************************************)
(* The reference that keeps the render target alive.                       *)
(***************************************************************************)
ImageRefs == {r \in LiveRefs(registry) : registry.slot[r].kind = "image"}

\* the free list runs through every released slot once and ends: no slot
\* was released twice
RECURSIVE FreeChain(_, _, _)
FreeChain(reg, r, seen) ==
    IF r = 0
    THEN seen = {f \in DOMAIN reg.slot : reg.slot[f].kind = "free"}
    ELSE /\ r \in DOMAIN reg.slot
         /\ reg.slot[r].kind = "free"
         /\ r \notin seen
         /\ FreeChain(reg, reg.slot[r].id, seen \cup {r})

ReleasedOnce(reg) == FreeChain(reg, reg.freelist, {})

\* C24: a reference for the render target is held exactly when an image is
\* bound; it is the only image reference in the registry and designates
\* the image whose texture is bound, so that none to an image bound before
\* remains; no registry slot has been released twice.
C24_TargetReference ==
    /\ render_target_ref # LUA_NOREF <=> render_target # NULL
    /\ render_target # NULL =>
           /\ ImageRefs = {render_target_ref}
           /\ registry.slot[render_target_ref] = ImageObj(render_target)
           /\ images[render_target].texture
           /\ images[render_target].root = render_target
    /\ render_target = NULL => ImageRefs = {}
    /\ ReleasedOnce(registry)

\* B was bound while A was bound
C24_Witness ==
    /\ pc = "ret"
    /\ result.op = "set_render_target"
    /\ result.status = "ok"
    /\ \E A \in ImageIds, B \in ImageIds :
           /\ A # B
           /\ LatestCalls(<<A, B>>)
           /\ render_target = B

(***************************************************************************)
(* Sample pointer and keep-alive reference of a slot.                      *)
(***************************************************************************)
Designates(v, s) ==
    /\ RefLive(registry, voices[v].sample_ref)
    /\ registry.slot[voices[v].sample_ref] = SampleObj(s)

SlotReferenced ==
    \A v \in VoiceIds :
        /\ SlotActive(v) => HoldsRef(v) /\ Designates(v, voices[v].sample)
        /\ HoldsRef(v) => \E s \in SampleIds : Designates(v, s)
        /\ SlotFree(v) \/ SlotActive(v) \/ SlotZombie(v)

\* a slot that keeps its reference keeps what the reference designates,
\* also when the sample pointer is cleared
C25_Step ==
    \A v \in VoiceIds :
        (HoldsRef(v) /\ HoldsRef(v)' /\ voices'[v].sample_ref = voices[v].sample_ref) =>
            /\ registry'.slot[voices[v].sample_ref] = registry.slot[voices[v].sample_ref]
            /\ SlotActive(v) =>
                   registry'.slot[voices[v].sample_ref] = SampleObj(voices[v].sample)

\* C25: in every state, those inside play_sample and stop_voice and between
\* mixer callbacks included, a slot with a sample pointer holds a live
\* reference that designates that sample, a held reference designates a
\* sample, and it goes on designating the sample the pointer last pointed
\* to while it is held.
C25_NoSampleWithoutReference == []SlotReferenced /\ [][C25_Step]_vars

\* the mixer has cleared a slot that play_sample filled, while another call
\* of play_sample is between taking its reference and publishing
C25_Witness ==
    /\ pc = "ps_lock"
    /\ \E v \in VoiceIds : v # cur /\ SlotZombie(v) /\ HoldsRef(v)

(***************************************************************************)
(* play_sample initialises a slot the mixer does not look at.              *)
(***************************************************************************)
WritingPcs == {"ps_init", "ps_ref", "ps_lock", "ps_publish"}

\* between the choice of the slot and the publication its pointer is null
WritesWhileNull == pc \in WritingPcs => voices[cur].sample = NULL

Published(v) == voices[v].sample = NULL /\ voices'[v].sample # NULL

C26_Step ==
    /\ MixAudio =>
           \A v \in VoiceIds :
               (voices[v].sample = NULL \/ (pc \in WritingPcs /\ cur = v)) =>
                   voices'[v] = voices[v]
    /\ ~MixAudio =>
           \A v \in VoiceIds :
               /\ voices'[v] # voices[v] /\ voices'[v].sample = voices[v].sample =>
                      voices[v].sample = NULL
               /\ Published(v) =>
                      /\ pc = "ps_publish" /\ cur = v
                      /\ lock_depth > 0
                      /\ voices'[v].sample = self
                      /\ voices'[v].position = 0
                      /\ voices'[v].gain = clamp(args.gain, 0, FP_ONE)
                      /\ voices'[v].pitch = clamp(args.pitch, FP_ONE \div 2, 2 * FP_ONE)

\* C26: play_sample writes the fields of the chosen slot only while the
\* slot's sample pointer is null and sets the pointer last, with the lock
\* held; a mixer callback changes no slot whose pointer is null, and the
\* control thread changes no field of a slot whose pointer is set, so the
\* first callback that mixes the voice finds position 0 and the clamped
\* gain and pitch.
C26_NoPartialVoice == []WritesWhileNull /\ [][C26_Step]_vars

\* play_sample has written the fields of its slot and not yet published
\* it, while the mixer is advancing another voice
C26_Witness ==
    /\ pc = "ps_ref"
    /\ voices[cur].position = 0
    /\ \E v \in VoiceIds : v # cur /\ SlotActive(v) /\ voices[v].position > 0

(***************************************************************************)
(* References to a sample that has been stopped or destroyed.              *)
(***************************************************************************)
StoppedOrDestroyed ==
    /\ pc = "ret"
    /\ result.op \in {"stop_sample", "destroy_sample"}
    /\ result.status = "ok"

ReferencesTo(s) == {v \in VoiceIds : HoldsRef(v) /\ Designates(v, s)}

\* C27: when destroy_sample(s) or stop_sample(s) has returned, no slot holds
\* a reference to s, a slot that the mixer cleared at the end of s
\* included.
C27_NoReferenceAfterStop == StoppedOrDestroyed => ReferencesTo(result.arg) = {}

\* the slots whose pointer is s have been stopped and hold no reference
StoppedActiveVoices ==
    StoppedOrDestroyed =>
        \A v \in ReferencesTo(result.arg) : SlotZombie(v)

(***************************************************************************)
(* The callback at shutdown.                                               *)
(***************************************************************************)
C28_Step == main_pc = "lua_close" => ~MixAudio

\* C28: from main's call of SDL_PauseAudioDevice until lua_close has
\* returned, finalizers of the remaining samples included, no mixer
\* callback runs.
C28_NoCallbackDuringClose == [][C28_Step]_vars

\* the callback runs until shutdown_nox has closed the device
CallbackStoppedAtExit == main_pc = "done" => ~ENABLED MixAudio

(***************************************************************************)
(* The indices of data[] the mixer reads.                                  *)
(***************************************************************************)
\* data[pos] of a mono voice, data[pos + 0] and data[pos + 1] of any other
ReadIndices(v) ==
    IF MixedIndex(v) = Silent THEN {}
    ELSE IF samples[v.sample].channels = 1
         THEN {Pos(v)}
         ELSE {Pos(v) + 0, Pos(v) + 1}

\* C29: every index of data[] that the mixer reads for a voice, pos for a
\* mono voice, pos and pos + 1 for a stereo voice, is at least 0 and below
\* the length of the sample.
C29_ReadsBelowLength ==
    \A v \in VoiceIds :
        \A idx \in ReadIndices(voices[v]) :
            0 <= idx /\ idx < samples[voices[v].sample].length

\* stb_vorbis_decode_memory gives length * channels values: the reads are
\* inside the buffer
ReadsInsideBuffer ==
    \A v \in VoiceIds :
        \A idx \in ReadIndices(voices[v]) :
            /\ 0 <= idx
            /\ idx < samples[voices[v].sample].length * samples[voices[v].sample].channels

\* the guard of the mixer: pos itself is below the length
GuardedIndexBelowLength ==
    \A v \in VoiceIds :
        MixedIndex(voices[v]) # Silent =>
            /\ 0 <= Pos(voices[v])
            /\ Pos(voices[v]) < samples[voices[v].sample].length

\* C30: the index of the left channel that the mixer reads for a stereo
\* voice is even at every read.
C30_StereoFrameAligned ==
    \A v \in VoiceIds :
        (MixedIndex(voices[v]) # Silent /\ samples[voices[v].sample].channels = 2) =>
            Pos(voices[v]) % 2 = 0

\* at the output rate and pitch 1 a stereo voice reads whole frames
StereoAlignedAtUnitRate ==
    \A v \in VoiceIds :
        (/\ MixedIndex(voices[v]) # Silent
         /\ samples[voices[v].sample].channels = 2
         /\ samples[voices[v].sample].freq = AUDIO_FREQUENCY
         /\ voices[v].pitch >= FP_ONE) =>
            Pos(voices[v]) % 2 = 0

(***************************************************************************)
(* The device lock of the control thread.                                  *)
(***************************************************************************)
ReturnedPcs == {"idle", "ret", "exit"}

C31_Step ==
    /\ lock_depth' \in 0..2
    /\ pc' \in ReturnedPcs => lock_depth' = 0
    /\ MixAudio => lock_depth = 0 /\ lock_depth' = 0

\* C31: the control thread holds the lock at most twice, never a negative
\* number of times, and not at all when a function has returned, the
\* functions that call stop_voice with the lock held included; a callback
\* runs only while the lock is not held, and whenever the lock is held it
\* is released completely later on.
C31_LockBalanced == [][C31_Step]_vars /\ (lock_depth > 0 ~> lock_depth = 0)

\* stop_voice holds the lock a second time inside stop_sample,
\* stop_all_voices or purge_voices
C31_Witness ==
    /\ pc = "sv_clear"
    /\ lock_depth = 2
    /\ Head(stack) \in {"ss_loop", "sa_loop", "pv_loop"}

====
